---- MODULE Spec2Model ----
(***************************************************************************)
(* SmartSense sensor network: the SensorNetwork orchestrator               *)
(* (core/monitor.py), the alert routes of the HTTP layer (api/routes.py)   *)
(* and the per-sensor polling task.                                        *)
(*                                                                         *)
(* Numbers: reading values, thresholds and the comparison buffer are       *)
(* Python floats; they are modelled as exact integers (a unit of the model *)
(* is one hundredth where a scenario needs 26.01).  Time is a discrete     *)
(* clock `now` in seconds.  An alert id "alert_<n>" is modelled by n, the  *)
(* formatting being injective.                                             *)
(***************************************************************************)
EXTENDS Integers, Sequences, FiniteSets, TLC

VARIABLES
    sensors,    \* self.sensors : registered sensor id -> sensor object
    readings,   \* self.readings: sensor id -> sequence of readings
    alerts,     \* self.alerts  : sequence of Alert objects
    running,    \* self.running
    tasks,      \* polling tasks ever started and not yet reaped
    runner,     \* position of the _run_network coroutine
    now,        \* the wall clock read by datetime.now()
    created,    \* number of objects allocated so far, per class
    trace,      \* history, per live alert object, of its evaluations
    invoked,    \* callbacks invoked by the latest step, in invocation order
    seen,       \* alert objects the latest step evaluated
    lastOp,     \* the latest operation of a caller and its outcome
    evlog,      \* history: the evaluated readings (SpecScenario), the flag
                \* the latest stop found (SpecSched)
    probe       \* inputs and result of one condition (SpecCond) or of one
                \* query of the readings (SpecStore, SpecBacklog); the state
                \* of the Sensor objects (SpecDevice); one VirtualSensor
                \* object (SpecVirtual); the argument and the outcome of one
                \* HumidityReading construction (SpecHumidity); the tasks
                \* that found the running flag false (SpecStop); the
                \* _last_reading of each Sensor object (SpecLatest)

vars == <<sensors, readings, alerts, running, tasks, runner, now, created,
          trace, invoked, seen, lastOp, evlog, probe>>

----------------------------------------------------------------------------
(* Bounds of the model *)

MaxAlertObjs == 1      \* Spec: Alert objects allocated in one behaviour
MaxSensorObjs == 1     \* Spec: Sensor objects allocated in one behaviour
MaxTasks == 1          \* Spec: polling tasks created in one behaviour
MaxTime == 1           \* Spec: the clock runs over 0..MaxTime
MaxLog == 1            \* Spec: readings per log before polling pauses
RegMaxAlertObjs == 3   \* SpecReg: Alert objects allocated
EngMaxAlertObjs == 1   \* SpecEngine: Alert objects allocated
EngMaxTime == 2        \* SpecEngine: the clock runs over 0..EngMaxTime
EngMaxLog == 4         \* SpecEngine: readings per log
ScenMaxTime == 3       \* SpecScenario: the clock runs over 0..ScenMaxTime
ScenMaxLog == 4        \* SpecScenario: readings evaluated
CondMaxBuffer == 1     \* SpecCond: comparison buffers 0..CondMaxBuffer
StoreMaxTime == 1      \* SpecStore: the clock runs over 0..StoreMaxTime
StoreMaxLog == 3       \* SpecStore: readings per log
BacklogMaxLog == 11    \* SpecBacklog: readings per log
SchedMaxSensorObjs == 3    \* SpecSched: Sensor objects allocated
SchedMaxTasks == 2         \* SpecSched: polling tasks created
SchedMaxLog == 1           \* SpecSched: readings per log
DevMaxLog == 2             \* SpecDevice: readings per log
VirtMaxValue == 2          \* SpecVirtual: min_value, max_value in 2 * (0..VirtMaxValue)
VirtMaxNoise == 2          \* SpecVirtual: noise_level in 0..VirtMaxNoise
FrameMaxAlertObjs == 3     \* SpecFrame: alerts registered
FrameMaxLog == 2           \* SpecFrame: readings appended to the log
StopMaxTasks == 4          \* SpecStop: polling tasks created
StopMaxLog == 1            \* SpecStop: readings appended to a log
PairMaxLog == 2            \* SpecPair: readings appended to each log
PairMaxTime == 1           \* SpecPair: clock ticks
LatestMaxSensorObjs == 3   \* SpecLatest: Sensor objects constructed
LatestMaxLog == 2          \* SpecLatest: readings appended to a log
HumMargin == 2             \* SpecHumidity: humidities from -HumMargin to 100 + HumMargin

----------------------------------------------------------------------------
(* Values of the program *)

NoneTime == -1         \* last_triggered: Optional[datetime] = None

DefaultBuffer == 0     \* comparison_buffer: float = 0.0

DefaultLimit == 10     \* limit: int = Query(10, ge=1, le=1000)
LeastLimit == 1
GreatestLimit == 1000

NoLimit == -1          \* the request carries no limit

ValidOperators == {"gt", "lt", "eq", "neq", "between"}

Num(x) == [isList |-> FALSE, xs |-> <<x>>]     \* a float threshold
Lst(s) == [isList |-> TRUE, xs |-> s]          \* a List[float] threshold

Extend(f, k, v) == [x \in DOMAIN f \cup {k} |-> IF x = k THEN v ELSE f[x]]

Restrict(f, S) == [x \in S |-> f[x]]

Remove(s, i) == [j \in 1..(Len(s) - 1) |-> IF j < i THEN s[j] ELSE s[j + 1]]

Abs(x) == IF x < 0 THEN -x ELSE x

Objs(as) == {as[i].obj : i \in DOMAIN as}

----------------------------------------------------------------------------
(* Objects *)

\* Alert(id=..., condition=AlertCondition(...), actions=..., cooldown=...):
\* triggered and last_triggered take their defaults, and so does
\* comparison_buffer, which add_alert never passes.
NewAlert(id, req, obj) ==
    [id |-> id, sensor_id |-> req.sensor_id, field |-> req.field,
     operator |-> req.operator, value |-> req.value,
     comparison_buffer |-> DefaultBuffer, actions |-> req.actions,
     triggered |-> FALSE, last_triggered |-> NoneTime,
     cooldown |-> req.cooldown, obj |-> obj]

NewTrace ==
    [last |-> "none", prev |-> "none", lastFire |-> NoneTime, cleared |-> FALSE]

Op(name, sid, operator, result, ret) ==
    [op |-> name, sensor_id |-> sid, operator |-> operator,
     result |-> result, ret |-> ret]

\* a step of the program that is no call of a caller
Step == Op("step", "", "", "ok", 0)

\* the placeholder action of create_alert: it logs and returns
LogAction == [name |-> "log", raises |-> FALSE]

----------------------------------------------------------------------------
(* Registration: SensorNetwork.add_sensor, remove_sensor, add_alert and the *)
(* alert routes                                                             *)

Quiet == /\ invoked' = <<>>
         /\ seen' = {}

\* add_sensor keeping the log of an id that is registered already
AddSensorKeepsLog(sid) ==
    /\ sensors' = Extend(sensors, sid, created.sensor + 1)
    /\ readings' = IF sid \in DOMAIN readings THEN readings
                   ELSE Extend(readings, sid, <<>>)
    /\ created' = [created EXCEPT !.sensor = @ + 1]
    /\ lastOp' = Op("add_sensor", sid, "", "ok", 0)
    /\ Quiet
    /\ UNCHANGED <<alerts, running, tasks, runner, now, trace>>

\* self.sensors[sensor.id] = sensor; self.readings[sensor.id] = []
AddSensor(sid) ==
    /\ sensors' = Extend(sensors, sid, created.sensor + 1)
    /\ readings' = Extend(readings, sid, <<>>)
    /\ created' = [created EXCEPT !.sensor = @ + 1]
    /\ lastOp' = Op("add_sensor", sid, "", "ok", 0)
    /\ Quiet
    /\ UNCHANGED <<alerts, running, tasks, runner, now, trace>>

\* remove_sensor answering True whatever the id
RemoveSensorAny(sid) ==
    /\ sensors' = Restrict(sensors, DOMAIN sensors \ {sid})
    /\ readings' = Restrict(readings, DOMAIN readings \ {sid})
    /\ lastOp' = Op("remove_sensor", sid, "", "True", 0)
    /\ Quiet
    /\ UNCHANGED <<alerts, running, tasks, runner, now, created, trace>>

\* remove_sensor without self.readings.pop
RemoveSensorKeepLog(sid) ==
    /\ IF sid \in DOMAIN sensors
       THEN /\ sensors' = Restrict(sensors, DOMAIN sensors \ {sid})
            /\ lastOp' = Op("remove_sensor", sid, "", "True", 0)
       ELSE /\ UNCHANGED sensors
            /\ lastOp' = Op("remove_sensor", sid, "", "False", 0)
    /\ Quiet
    /\ UNCHANGED <<readings, alerts, running, tasks, runner, now, created,
                   trace>>

RemoveSensor(sid) ==
    /\ IF sid \in DOMAIN sensors
       THEN /\ sensors' = Restrict(sensors, DOMAIN sensors \ {sid})
            /\ readings' = Restrict(readings, DOMAIN readings \ {sid})
            /\ lastOp' = Op("remove_sensor", sid, "", "True", 0)
       ELSE /\ UNCHANGED <<sensors, readings>>
            /\ lastOp' = Op("remove_sensor", sid, "", "False", 0)
    /\ Quiet
    /\ UNCHANGED <<alerts, running, tasks, runner, now, created, trace>>

\* the id add_alert gives: f"alert_{len(self.alerts) + 1}"
AlertId(as) == Len(as) + 1

\* add_alert without its test of the sensor id
SensorKnownAny(sid) == TRUE

\* the test that opens add_alert
SensorKnown(sid) == sid \in DOMAIN sensors

\* the body of add_alert past its first test
Register(req, opname) ==
    /\ alerts' = Append(alerts, NewAlert(AlertId(alerts), req, created.alert + 1))
    /\ trace' = Extend(trace, created.alert + 1, NewTrace)
    /\ created' = [created EXCEPT !.alert = @ + 1]
    /\ lastOp' = Op(opname, req.sensor_id, req.operator, "ok", AlertId(alerts))

Rejected(req, opname, error) ==
    /\ lastOp' = Op(opname, req.sensor_id, req.operator, error, 0)
    /\ UNCHANGED <<alerts, trace, created>>

AddAlert(req) ==
    /\ IF ~SensorKnown(req.sensor_id)
       THEN Rejected(req, "add_alert", "ValueError")
       ELSE Register(req, "add_alert")
    /\ Quiet
    /\ UNCHANGED <<sensors, readings, running, tasks, runner, now>>

\* the operator test of the route
OperatorValid(op) == op \in ValidOperators

\* POST /alerts
CreateAlert(req) ==
    /\ IF req.sensor_id \notin DOMAIN sensors
       THEN Rejected(req, "create_alert", "404")
       ELSE IF ~OperatorValid(req.operator)
       THEN Rejected(req, "create_alert", "400")
       ELSE IF ~SensorKnown(req.sensor_id)
       THEN Rejected(req, "create_alert", "400")
       ELSE Register(req, "create_alert")
    /\ Quiet
    /\ UNCHANGED <<sensors, readings, running, tasks, runner, now>>

\* the index of the first alert with this id, 0 when there is none
RECURSIVE FindAlert(_, _, _)
FindAlert(as, id, i) ==
    IF i > Len(as) THEN 0
    ELSE IF as[i].id = id THEN i
    ELSE FindAlert(as, id, i + 1)

\* DELETE /alerts/{alert_id}
DeleteAlert(id) ==
    /\ LET i == FindAlert(alerts, id, 1) IN
       IF i = 0
       THEN /\ lastOp' = Op("delete_alert", "", "", "404", id)
            /\ UNCHANGED <<alerts, trace>>
       ELSE /\ alerts' = Remove(alerts, i)
            /\ trace' = Restrict(trace, DOMAIN trace \ {alerts[i].obj})
            /\ lastOp' = Op("delete_alert", "", "", "204", id)
    /\ Quiet
    /\ UNCHANGED <<sensors, readings, running, tasks, runner, now, created>>

----------------------------------------------------------------------------
(* Reading store: GET /sensors/{sensor_id}/readings                         *)

\* if start_time: readings = [r for r in readings if r.timestamp >= start_time]
FromTime(rs, start) ==
    IF start # NoneTime
    THEN SelectSeq(rs, LAMBDA r : r.timestamp >= start)
    ELSE rs

\* if end_time: readings = [r for r in readings if r.timestamp <= end_time]
UpToTime(rs, end) ==
    IF end # NoneTime
    THEN SelectSeq(rs, LAMBDA r : r.timestamp <= end)
    ELSE rs

\* the slice taken from the front: readings[:limit]
FirstN(rs, limit) ==
    IF Len(rs) <= limit THEN rs ELSE SubSeq(rs, 1, limit)

\* readings[-limit:], for limit >= 1
LastN(rs, limit) ==
    IF Len(rs) <= limit THEN rs ELSE SubSeq(rs, Len(rs) - limit + 1, Len(rs))

\* the limit the handler receives
LimitOf(limit) == IF limit = NoLimit THEN DefaultLimit ELSE limit

Answer(sid, limit, start, end, status, rows) ==
    [sensor_id |-> sid, limit |-> limit, start_time |-> start,
     end_time |-> end, status |-> status, rows |-> rows]

GetSensorReadings(sid, limit, start, end) ==
    /\ LET status ==
               IF LimitOf(limit) < LeastLimit \/ LimitOf(limit) > GreatestLimit
               THEN "422"
               ELSE IF sid \notin DOMAIN sensors THEN "404"
               ELSE "200"
           log == IF sid \in DOMAIN readings THEN readings[sid] ELSE <<>>
           rows == IF status = "200"
                   THEN LastN(UpToTime(FromTime(log, start), end),
                              LimitOf(limit))
                   ELSE <<>>
       IN /\ probe' = Answer(sid, limit, start, end, status, rows)
          /\ lastOp' = Op("get_sensor_readings", sid, "", status, 0)
    /\ Quiet
    /\ UNCHANGED <<sensors, readings, alerts, running, tasks, runner, now,
                   created, trace, evlog>>

----------------------------------------------------------------------------
(* Alert engine: SensorNetwork._process_alerts                              *)

\* the field test that finds every field
HasFieldAny(reading, field) == TRUE

\* hasattr(reading, field): a reading carries the one field its sensor
\* measures
HasField(reading, field) == reading.field = field

\* the comparison raises TypeError: a float compared with, or subtracted
\* from, a list
CondRaises(operator, threshold) ==
    operator \in {"gt", "lt", "eq", "neq"} /\ threshold.isList

\* between with its upper bound exclusive
ConditionMetStrict(operator, value, threshold, buffer) ==
    IF operator = "gt" THEN value > threshold.xs[1]
    ELSE IF operator = "lt" THEN value < threshold.xs[1]
    ELSE IF operator = "eq" THEN Abs(value - threshold.xs[1]) <= buffer
    ELSE IF operator = "neq" THEN Abs(value - threshold.xs[1]) > buffer
    ELSE IF operator = "between" /\ threshold.isList /\ Len(threshold.xs) = 2
    THEN threshold.xs[1] <= value /\ value < threshold.xs[2]
    ELSE FALSE

\* `triggered` as the if/elif chain computes it
ConditionMet(operator, value, threshold, buffer) ==
    IF operator = "gt" THEN value > threshold.xs[1]
    ELSE IF operator = "lt" THEN value < threshold.xs[1]
    ELSE IF operator = "eq" THEN Abs(value - threshold.xs[1]) <= buffer
    ELSE IF operator = "neq" THEN Abs(value - threshold.xs[1]) > buffer
    ELSE IF operator = "between" /\ threshold.isList /\ Len(threshold.xs) = 2
    THEN threshold.xs[1] <= value /\ value <= threshold.xs[2]
    ELSE FALSE

\* the cooldown compared with >= instead of >
CooldownOkInclusive(a, t) ==
    IF a.last_triggered # NoneTime
    THEN t - a.last_triggered >= a.cooldown
    ELSE TRUE

\* the cooldown ignored
CooldownOkAlways(a, t) == TRUE

CooldownOk(a, t) ==
    IF a.last_triggered # NoneTime
    THEN t - a.last_triggered > a.cooldown
    ELSE TRUE

\* level-triggered: fires whenever the condition is met and the cooldown over
OutcomeLevel(a, met, t) ==
    IF met /\ CooldownOk(a, t) THEN "fired"
    ELSE IF ~met /\ a.triggered THEN "cleared"
    ELSE IF met /\ a.triggered THEN "held"
    ELSE IF met THEN "suppressed"
    ELSE "idle"

\* clearing gated by the cooldown like triggering
OutcomeClearGated(a, met, t) ==
    IF met /\ ~a.triggered /\ CooldownOk(a, t) THEN "fired"
    ELSE IF ~met /\ a.triggered /\ CooldownOk(a, t) THEN "cleared"
    ELSE IF a.triggered THEN "held"
    ELSE IF met THEN "suppressed"
    ELSE "idle"

\* the trigger edge taken whatever the cooldown
OutcomeEager(a, met, t) ==
    IF met /\ ~a.triggered THEN "fired"
    ELSE IF ~met /\ a.triggered THEN "cleared"
    ELSE IF met /\ a.triggered THEN "held"
    ELSE "idle"

\* the branch the state change takes
Outcome(a, met, t) ==
    IF met /\ ~a.triggered /\ CooldownOk(a, t) THEN "fired"
    ELSE IF ~met /\ a.triggered THEN "cleared"
    ELSE IF met /\ a.triggered THEN "held"
    ELSE IF met THEN "suppressed"
    ELSE "idle"

\* the trigger that forgets to latch
FireNoLatch(a, t) == [a EXCEPT !.last_triggered = t]

\* the clearing whose write is lost
ClearLost(a) == a

\* the alert after the branch
Fire(a, t) == [a EXCEPT !.triggered = TRUE, !.last_triggered = t]

Clear(a) == [a EXCEPT !.triggered = FALSE]

\* the loop over the actions without its try: the first raise ends it
RECURSIVE UntilRaise(_, _)
UntilRaise(cs, k) ==
    IF k > Len(cs) THEN cs
    ELSE IF cs[k].raised THEN SubSeq(cs, 1, k)
    ELSE UntilRaise(cs, k + 1)

CallsUntilRaise(a) ==
    UntilRaise([k \in 1..Len(a.actions) |->
                   [obj |-> a.obj, idx |-> k, name |-> a.actions[k].name,
                    raised |-> a.actions[k].raises]], 1)

\* the loop over the actions taken from the last one to the first
CallsReversed(a) ==
    [k \in 1..Len(a.actions) |->
        LET j == Len(a.actions) + 1 - k IN
        [obj |-> a.obj, idx |-> j, name |-> a.actions[j].name,
         raised |-> a.actions[j].raises]]

\* for action in alert.actions: try: action.callback() except Exception
Calls(a) ==
    [k \in 1..Len(a.actions) |->
        [obj |-> a.obj, idx |-> k, name |-> a.actions[k].name,
         raised |-> a.actions[k].raises]]

Traced(tr, out, t) ==
    [last |-> out,
     prev |-> tr.last,
     lastFire |-> IF out = "fired" THEN t ELSE tr.lastFire,
     cleared |-> IF out = "fired" THEN FALSE
                 ELSE IF out = "cleared" THEN TRUE ELSE tr.cleared]

\* the loop over self.alerts from index i on; st.raised: an exception left it
RECURSIVE ProcessFrom(_, _, _, _, _)
ProcessFrom(i, sid, reading, t, st) ==
    IF i > Len(st.alerts) THEN st
    ELSE LET a == st.alerts[i] IN
         IF a.sensor_id # sid THEN ProcessFrom(i + 1, sid, reading, t, st)
         ELSE IF ~HasField(reading, a.field)
         THEN ProcessFrom(i + 1, sid, reading, t, st)
         ELSE IF CondRaises(a.operator, a.value)
         THEN [st EXCEPT !.raised = TRUE]
         ELSE LET met == ConditionMet(a.operator, reading.value, a.value,
                                      a.comparison_buffer)
                  out == Outcome(a, met, t)
                  b == IF out = "fired" THEN Fire(a, t)
                       ELSE IF out = "cleared" THEN Clear(a)
                       ELSE a
              IN ProcessFrom(i + 1, sid, reading, t,
                     [alerts |-> [st.alerts EXCEPT ![i] = b],
                      trace |-> [st.trace EXCEPT ![a.obj] = Traced(@, out, t)],
                      invoked |-> IF out = "fired"
                                  THEN st.invoked \o Calls(a)
                                  ELSE st.invoked,
                      seen |-> st.seen \cup {a.obj},
                      raised |-> FALSE])

ProcessAlerts(sid, reading, t) ==
    ProcessFrom(1, sid, reading, t,
        [alerts |-> alerts, trace |-> trace, invoked |-> <<>>, seen |-> {},
         raised |-> FALSE])

----------------------------------------------------------------------------
(* Polling task: SensorNetwork._poll_sensor, one coroutine per task.        *)
(* pc "start": created, not yet run; "read": suspended in sensor.read();    *)
(* "sleep": suspended in asyncio.sleep.  A task that ends leaves `tasks`    *)
(* (its done callback discards it).                                         *)

\* the field a sensor's readings carry (TemperatureSensor, HumiditySensor)
FieldOf(sid) == IF sid = "s1" THEN "temperature" ELSE "humidity"

Reading(sid, v, t) ==
    [sensor_id |-> sid, timestamp |-> t, field |-> FieldOf(sid), value |-> v]

NewTask(tid, sid, sobj) ==
    [tid |-> tid, sid |-> sid, sobj |-> sobj, pc |-> "start", cancel |-> FALSE]

Moved(t, pc) == (tasks \ {t}) \cup {[t EXCEPT !.pc = pc]}

\* the loop test that waits for the flag instead of leaving the loop
LoopTestWaits(t) ==
    IF running THEN tasks' = Moved(t, "read") ELSE tasks' = Moved(t, "sleep")

\* while self.running: evaluated when the task first runs and after each sleep
LoopTest(t) ==
    IF running THEN tasks' = Moved(t, "read") ELSE tasks' = tasks \ {t}

PollStart(t) ==
    /\ t.pc = "start" /\ ~t.cancel
    /\ LoopTest(t)
    /\ lastOp' = Step
    /\ Quiet
    /\ UNCHANGED <<sensors, readings, alerts, running, runner, now, created,
                   trace>>

PollWake(t) ==
    /\ t.pc = "sleep" /\ ~t.cancel
    /\ LoopTest(t)
    /\ lastOp' = Step
    /\ Quiet
    /\ UNCHANGED <<sensors, readings, alerts, running, runner, now, created,
                   trace>>

\* the loop without its except clause: an error ends the task
AfterCycleEnds(t) == tasks \ {t}

\* where the task goes once the try block is left, normally or by except
AfterCycle(t) == Moved(t, "sleep")

\* the reading put at the head of the log instead of its end
PollReadingAtHead(t, v) ==
    /\ t.pc = "read" /\ ~t.cancel
    /\ tasks' = AfterCycle(t)
    /\ IF t.sid \notin DOMAIN readings
       THEN /\ lastOp' = Op("poll", t.sid, "", "KeyError", t.tid)
            /\ invoked' = <<>>
            /\ seen' = {}
            /\ UNCHANGED <<readings, alerts, trace>>
       ELSE /\ readings' = [readings EXCEPT
                               ![t.sid] = <<Reading(t.sid, v, now)>> \o @]
            /\ LET st == ProcessAlerts(t.sid, Reading(t.sid, v, now), now) IN
               /\ alerts' = st.alerts
               /\ trace' = st.trace
               /\ invoked' = st.invoked
               /\ seen' = st.seen
               /\ lastOp' = Op("poll", t.sid, "",
                               IF st.raised THEN "TypeError" ELSE "reading",
                               t.tid)
    /\ UNCHANGED <<sensors, running, runner, now, created>>

\* the poll that creates a missing log and goes on to the alerts
PollReadingLazy(t, v) ==
    /\ t.pc = "read" /\ ~t.cancel
    /\ tasks' = AfterCycle(t)
    /\ readings' = IF t.sid \in DOMAIN readings
                   THEN [readings EXCEPT
                            ![t.sid] = Append(@, Reading(t.sid, v, now))]
                   ELSE Extend(readings, t.sid, <<Reading(t.sid, v, now)>>)
    /\ LET st == ProcessAlerts(t.sid, Reading(t.sid, v, now), now) IN
       /\ alerts' = st.alerts
       /\ trace' = st.trace
       /\ invoked' = st.invoked
       /\ seen' = st.seen
       /\ lastOp' = Op("poll", t.sid, "",
                       IF st.raised THEN "TypeError" ELSE "reading", t.tid)
    /\ UNCHANGED <<sensors, running, runner, now, created>>

\* the poll that evaluates the alerts and keeps the reading out of the log
PollReadingUnlogged(t, v) ==
    /\ t.pc = "read" /\ ~t.cancel
    /\ tasks' = AfterCycle(t)
    /\ LET st == ProcessAlerts(t.sid, Reading(t.sid, v, now), now) IN
       /\ alerts' = st.alerts
       /\ trace' = st.trace
       /\ invoked' = st.invoked
       /\ seen' = st.seen
       /\ lastOp' = Op("poll", t.sid, "",
                       IF st.raised THEN "TypeError" ELSE "reading", t.tid)
    /\ UNCHANGED <<sensors, readings, running, runner, now, created>>

\* sensor.read() returned a reading with value v
PollReading(t, v) ==
    /\ t.pc = "read" /\ ~t.cancel
    /\ tasks' = AfterCycle(t)
    /\ IF t.sid \notin DOMAIN readings
       THEN \* self.readings[sensor.id] raises KeyError, caught by the loop
            /\ lastOp' = Op("poll", t.sid, "", "KeyError", t.tid)
            /\ invoked' = <<>>
            /\ seen' = {}
            /\ UNCHANGED <<readings, alerts, trace>>
       ELSE /\ readings' = [readings EXCEPT
                               ![t.sid] = Append(@, Reading(t.sid, v, now))]
            /\ LET st == ProcessAlerts(t.sid, Reading(t.sid, v, now), now) IN
               /\ alerts' = st.alerts
               /\ trace' = st.trace
               /\ invoked' = st.invoked
               /\ seen' = st.seen
               /\ lastOp' = Op("poll", t.sid, "",
                               IF st.raised THEN "TypeError" ELSE "reading",
                               t.tid)
    /\ UNCHANGED <<sensors, running, runner, now, created>>

\* a failing read that stops the whole network
PollNothingFatal(t, how) ==
    /\ t.pc = "read" /\ ~t.cancel
    /\ tasks' = AfterCycle(t)
    /\ running' = FALSE
    /\ lastOp' = Op("poll", t.sid, "", how, t.tid)
    /\ Quiet
    /\ UNCHANGED <<sensors, readings, alerts, runner, now, created, trace>>

\* sensor.read() returned None, or raised
PollNothing(t, how) ==
    /\ t.pc = "read" /\ ~t.cancel
    /\ tasks' = AfterCycle(t)
    /\ lastOp' = Op("poll", t.sid, "", how, t.tid)
    /\ Quiet
    /\ UNCHANGED <<sensors, readings, alerts, running, runner, now, created,
                   trace>>

\* CancelledError is thrown into the task where it is suspended; it is not
\* an Exception, so the loop's except clause lets it through
PollCancelled(t) ==
    /\ t.cancel
    /\ tasks' = tasks \ {t}
    /\ lastOp' = Step
    /\ Quiet
    /\ UNCHANGED <<sensors, readings, alerts, running, runner, now, created,
                   trace>>

----------------------------------------------------------------------------
(* Lifecycle: the start and stop routes, SensorNetwork._run_network         *)

StartNetwork ==
    /\ running' = TRUE
    /\ lastOp' = Op("start", "", "", "ok", 0)
    /\ Quiet
    /\ UNCHANGED <<sensors, readings, alerts, tasks, runner, now, created,
                   trace>>

\* the stop route flipping the flag whatever it was
StopNetworkToggle ==
    /\ running' = ~running
    /\ lastOp' = Op("stop", "", "", "ok", 0)
    /\ Quiet
    /\ UNCHANGED <<sensors, readings, alerts, tasks, runner, now, created,
                   trace>>

\* if network.running: network.running = False
StopNetwork ==
    /\ IF running THEN running' = FALSE ELSE UNCHANGED running
    /\ lastOp' = Op("stop", "", "", "ok", 0)
    /\ Quiet
    /\ UNCHANGED <<sensors, readings, alerts, tasks, runner, now, created,
                   trace>>

\* an order of the registered sensors (the order of the dict)
SensorOrder == CHOOSE f \in [DOMAIN sensors -> 1..Cardinality(DOMAIN sensors)] :
                   \A a, b \in DOMAIN sensors : a # b => f[a] # f[b]

\* for task in self._tasks: if not task.done(): task.cancel()
Cancelled(ts) == {[t EXCEPT !.cancel = TRUE] : t \in ts}

\* _run_network is called: the initial tasks, then the supervising loop
RunNetwork ==
    /\ runner \in {"none", "stopped"}
    /\ IF running
       THEN /\ tasks' = tasks \cup
                   {NewTask(created.task + SensorOrder[sid], sid, sensors[sid]) :
                        sid \in DOMAIN sensors}
            /\ created' = [created EXCEPT
                               !.task = @ + Cardinality(DOMAIN sensors)]
            /\ runner' = "loop"
       ELSE /\ tasks' = Cancelled(tasks)
            /\ runner' = IF tasks = {} THEN "stopped" ELSE "closing"
            /\ UNCHANGED created
    /\ lastOp' = Step
    /\ Quiet
    /\ UNCHANGED <<sensors, readings, alerts, running, now, trace>>

\* the supervising loop that never leaves
SuperviseForever ==
    /\ runner = "loop" /\ ~running
    /\ lastOp' = Step
    /\ Quiet
    /\ UNCHANGED <<sensors, readings, alerts, running, tasks, runner, now,
                   created, trace>>

\* the supervising loop wakes and finds running false: the finally block
Supervise ==
    /\ runner = "loop" /\ ~running
    /\ tasks' = Cancelled(tasks)
    /\ runner' = IF tasks = {} THEN "stopped" ELSE "closing"
    /\ lastOp' = Step
    /\ Quiet
    /\ UNCHANGED <<sensors, readings, alerts, running, now, created, trace>>

\* asyncio.gather returns once every task is done: self._tasks.clear()
Reaped ==
    /\ runner = "closing" /\ tasks = {}
    /\ runner' = "stopped"
    /\ lastOp' = Step
    /\ Quiet
    /\ UNCHANGED <<sensors, readings, alerts, running, tasks, now, created,
                   trace>>

Tick ==
    /\ now' = now + 1
    /\ lastOp' = Step
    /\ Quiet
    /\ UNCHANGED <<sensors, readings, alerts, running, tasks, runner, created,
                   trace>>

----------------------------------------------------------------------------
(* Inputs *)

Request(sid, field, operator, value, actions, cooldown) ==
    [sensor_id |-> sid, field |-> field, operator |-> operator,
     value |-> value, actions |-> actions, cooldown |-> cooldown]

Ok(name) == [name |-> name, raises |-> FALSE]
Bad(name) == [name |-> name, raises |-> TRUE]

\* through the route every alert gets the placeholder action
ViaRoute(req) == [req EXCEPT !.actions = <<LogAction>>]

SensorIds == {"s1"}            \* ids sensors are registered under
AllIds == {"s1", "s2"}         \* ids callers name; "s2" is never registered

Values == {20, 26}             \* what a read returns

HotAlert == Request("s1", "temperature", "gt", Num(25), <<Bad("a"), Ok("b")>>, 1)
ColdAlert == Request("s1", "temperature", "lt", Num(25), <<Ok("c")>>, 0)
LostAlert == Request("s2", "temperature", "gt", Num(25), <<Ok("c")>>, 0)
OddAlert == Request("s1", "temperature", "ge", Num(25), <<Ok("c")>>, 0)
BentAlert ==
    Request("s1", "temperature", "between", Lst(<<26, 18>>), <<Ok("c")>>, 0)

Requests == {HotAlert, LostAlert}
RegRequests == {HotAlert, LostAlert, OddAlert, BentAlert}
EngRequests == {HotAlert, ColdAlert}

\* guards that keep a behaviour within the bounds
RoomForAlert(req, max) == SensorKnown(req.sensor_id) => created.alert < max
RoomInLog(t, max) == t.sid \in DOMAIN readings => Len(readings[t.sid]) < max

Aside == UNCHANGED <<evlog, probe>>

----------------------------------------------------------------------------
(* Spec: the network from construction, one sensor, alerts registered by   *)
(* add_alert                                                                *)

Init ==
    /\ sensors = <<>>
    /\ readings = <<>>
    /\ alerts = <<>>
    /\ running = FALSE
    /\ tasks = {}
    /\ runner = "none"
    /\ now = 0
    /\ created = [alert |-> 0, sensor |-> 0, task |-> 0]
    /\ trace = <<>>
    /\ invoked = <<>>
    /\ seen = {}
    /\ lastOp = Op("none", "", "", "ok", 0)
    /\ evlog = <<>>
    /\ probe = <<>>

Next ==
    \/ \E sid \in SensorIds :
          created.sensor < MaxSensorObjs /\ AddSensor(sid) /\ Aside
    \/ \E sid \in AllIds : RemoveSensor(sid) /\ Aside
    \/ \E req \in Requests :
          RoomForAlert(req, MaxAlertObjs) /\ AddAlert(req) /\ Aside
    \/ \E id \in 1..MaxAlertObjs : DeleteAlert(id) /\ Aside
    \/ StartNetwork /\ Aside
    \/ StopNetwork /\ Aside
    \/ (running => created.task + Cardinality(DOMAIN sensors) <= MaxTasks)
          /\ RunNetwork /\ Aside
    \/ Supervise /\ Aside
    \/ Reaped /\ Aside
    \/ \E t \in tasks : PollStart(t) /\ Aside
    \/ \E t \in tasks : PollWake(t) /\ Aside
    \/ \E t \in tasks, v \in Values :
          RoomInLog(t, MaxLog) /\ PollReading(t, v) /\ Aside
    \/ \E t \in tasks, how \in {"None", "error"} : PollNothing(t, how) /\ Aside
    \/ \E t \in tasks : PollCancelled(t) /\ Aside
    \/ now < MaxTime /\ Tick /\ Aside

Spec == Init /\ [][Next]_vars

----------------------------------------------------------------------------
(* SpecReg: registration and removal of sensors and alerts                  *)

NextReg ==
    \/ \E sid \in SensorIds :
          created.sensor < MaxSensorObjs /\ AddSensor(sid) /\ Aside
    \/ \E sid \in AllIds : RemoveSensor(sid) /\ Aside
    \/ \E req \in RegRequests :
          RoomForAlert(req, RegMaxAlertObjs) /\ AddAlert(req) /\ Aside
    \/ \E req \in RegRequests :
          RoomForAlert(req, RegMaxAlertObjs) /\ CreateAlert(ViaRoute(req)) /\ Aside
    \/ \E id \in 1..RegMaxAlertObjs : DeleteAlert(id) /\ Aside

SpecReg == Init /\ [][NextReg]_vars

----------------------------------------------------------------------------
(* SpecEngine: the alert engine under a polling task.  It starts where      *)
(* Spec stands after add_sensor, start, _run_network and the task's first   *)
(* loop test.                                                               *)

InitEngine ==
    /\ sensors = [sid \in {"s1"} |-> 1]
    /\ readings = [sid \in {"s1"} |-> <<>>]
    /\ alerts = <<>>
    /\ running = TRUE
    /\ tasks = {[NewTask(1, "s1", 1) EXCEPT !.pc = "read"]}
    /\ runner = "loop"
    /\ now = 0
    /\ created = [alert |-> 0, sensor |-> 1, task |-> 1]
    /\ trace = <<>>
    /\ invoked = <<>>
    /\ seen = {}
    /\ lastOp = Step
    /\ evlog = <<>>
    /\ probe = <<>>

NextEngine ==
    \/ \E req \in EngRequests :
          RoomForAlert(req, EngMaxAlertObjs) /\ AddAlert(req) /\ Aside
    \/ \E id \in 1..EngMaxAlertObjs : DeleteAlert(id) /\ Aside
    \/ \E t \in tasks : PollWake(t) /\ Aside
    \/ \E t \in tasks, v \in Values :
          RoomInLog(t, EngMaxLog) /\ PollReading(t, v) /\ Aside
    \/ \E t \in tasks, how \in {"None", "error"} : PollNothing(t, how) /\ Aside
    \/ now < EngMaxTime /\ Tick /\ Aside

SpecEngine == InitEngine /\ [][NextEngine]_vars

----------------------------------------------------------------------------
(* SpecScenario: one alert, gt 25, registered before polling starts; every  *)
(* evaluated reading is recorded in evlog with what the evaluation did      *)

ScenCooldowns == {0, 2, 10}

ScenAlert(cd) ==
    Request("s1", "temperature", "gt", Num(25), <<Bad("a"), Ok("b")>>, cd)

InitScenario ==
    /\ sensors = [sid \in {"s1"} |-> 1]
    /\ readings = [sid \in {"s1"} |-> <<>>]
    /\ \E cd \in ScenCooldowns : alerts = <<NewAlert(1, ScenAlert(cd), 1)>>
    /\ running = TRUE
    /\ tasks = {[NewTask(1, "s1", 1) EXCEPT !.pc = "read"]}
    /\ runner = "loop"
    /\ now = 0
    /\ created = [alert |-> 1, sensor |-> 1, task |-> 1]
    /\ trace = [obj \in {1} |-> NewTrace]
    /\ invoked = <<>>
    /\ seen = {}
    /\ lastOp = Step
    /\ evlog = <<>>
    /\ probe = <<>>

Names(calls) == [k \in DOMAIN calls |-> calls[k].name]

NextScenario ==
    \/ \E t \in tasks : PollWake(t) /\ Aside
    \/ \E t \in tasks, v \in Values :
          /\ RoomInLog(t, ScenMaxLog)
          /\ PollReading(t, v)
          /\ evlog' = Append(evlog, [value |-> v, at |-> now,
                                     calls |-> Names(invoked'),
                                     triggered |-> alerts'[1].triggered])
          /\ UNCHANGED probe
    \/ \E t \in tasks, how \in {"None", "error"} : PollNothing(t, how) /\ Aside
    \/ now < ScenMaxTime /\ Tick /\ Aside

SpecScenario == InitScenario /\ [][NextScenario]_vars

----------------------------------------------------------------------------
(* SpecCond: the condition of _process_alerts on its own: Init draws the    *)
(* operator, the value read, the threshold and the buffer; Apply computes   *)

CondValues == {17, 18, 20, 25, 26, 27}

CondThresholds == {Num(25), Num(26), Lst(<<18, 26>>)}

InitCond ==
    /\ Init!1 /\ Init!2 /\ Init!3 /\ Init!4 /\ Init!5 /\ Init!6 /\ Init!7
    /\ Init!8 /\ Init!9 /\ Init!10 /\ Init!11 /\ Init!12 /\ Init!13
    /\ probe \in [operator : ValidOperators, value : CondValues,
                  threshold : CondThresholds, buffer : 0..CondMaxBuffer,
                  met : {"unset"}]

Apply ==
    /\ probe.met = "unset"
    /\ probe' = [probe EXCEPT !.met =
           IF CondRaises(probe.operator, probe.threshold) THEN "TypeError"
           ELSE IF ConditionMet(probe.operator, probe.value, probe.threshold,
                                probe.buffer)
           THEN "met" ELSE "not met"]
    /\ UNCHANGED <<sensors, readings, alerts, running, tasks, runner, now,
                   created, trace, invoked, seen, lastOp, evlog>>

NextCond == Apply

SpecCond == InitCond /\ [][NextCond]_vars

----------------------------------------------------------------------------
(* SpecStore: the readings of one sensor under polling, queried through the *)
(* route, the sensor removed at some point.  It starts where SpecEngine     *)
(* starts.                                                                  *)

Limits == {NoLimit, 0, 1, 2}           \* limits callers send

StoreTimes == {NoneTime} \cup 0..StoreMaxTime    \* time bounds callers send

NextStore ==
    \/ \E sid \in SensorIds : RemoveSensor(sid) /\ Aside
    \/ \E t \in tasks : PollWake(t) /\ Aside
    \/ \E t \in tasks :
          RoomInLog(t, StoreMaxLog) /\ PollReading(t, 20) /\ Aside
    \/ now < StoreMaxTime /\ Tick /\ Aside
    \/ \E sid \in SensorIds, limit \in Limits,
          start \in StoreTimes, end \in StoreTimes :
          GetSensorReadings(sid, limit, start, end)

SpecStore == InitEngine /\ [][NextStore]_vars

----------------------------------------------------------------------------
(* SpecBacklog: a log that grows past the default limit, queried without a  *)
(* limit and without time bounds                                            *)

NextBacklog ==
    \/ \E t \in tasks : PollWake(t) /\ Aside
    \/ \E t \in tasks :
          RoomInLog(t, BacklogMaxLog) /\ PollReading(t, 20) /\ Aside
    \/ \E sid \in SensorIds :
          GetSensorReadings(sid, NoLimit, NoneTime, NoneTime)

SpecBacklog == InitEngine /\ [][NextBacklog]_vars

----------------------------------------------------------------------------
(* SpecSched: two sensors, an alert on the first, the network started,      *)
(* run and stopped, sensors removed and added while the tasks poll.  It     *)
(* starts after add_sensor of both sensors and add_alert.                   *)

SchedIds == {"s1", "s2"}

InitSched ==
    /\ sensors = [sid \in SchedIds |-> IF sid = "s1" THEN 1 ELSE 2]
    /\ readings = [sid \in SchedIds |-> <<>>]
    /\ alerts = <<NewAlert(1, ColdAlert, 1)>>
    /\ running = FALSE
    /\ tasks = {}
    /\ runner = "none"
    /\ now = 0
    /\ created = [alert |-> 1, sensor |-> 2, task |-> 0]
    /\ trace = [obj \in {1} |-> NewTrace]
    /\ invoked = <<>>
    /\ seen = {}
    /\ lastOp = Op("add_alert", "s1", "lt", "ok", 1)
    /\ evlog = <<>>
    /\ probe = <<>>

\* history: the flag a call of the stop route found
Found(op) == <<[op |-> op, running |-> running]>>

NextSched ==
    \/ \E sid \in SchedIds :
          created.sensor < SchedMaxSensorObjs /\ AddSensor(sid) /\ Aside
    \/ \E sid \in SchedIds : RemoveSensor(sid) /\ Aside
    \/ StartNetwork /\ Aside
    \/ StopNetwork /\ evlog' = Found("stop") /\ UNCHANGED probe
    \/ (running => created.task + Cardinality(DOMAIN sensors) <= SchedMaxTasks)
          /\ RunNetwork /\ Aside
    \/ Supervise /\ Aside
    \/ Reaped /\ Aside
    \/ \E t \in tasks : PollStart(t) /\ Aside
    \/ \E t \in tasks : PollWake(t) /\ Aside
    \/ \E t \in tasks :
          RoomInLog(t, SchedMaxLog) /\ PollReading(t, 20) /\ Aside
    \/ \E t \in tasks : PollNothing(t, "error") /\ Aside
    \/ \E t \in tasks : PollCancelled(t) /\ Aside

SpecSched == InitSched /\ [][NextSched]_vars

----------------------------------------------------------------------------
(* SpecStop: the lifecycle of SpecSched with both sensors registered for    *)
(* good, _run_network called again after it has returned, and probe         *)
(* recording the tasks whose loop test found the running flag false         *)

InitStop ==
    /\ InitSched!1 /\ InitSched!2 /\ InitSched!3 /\ InitSched!4
    /\ InitSched!5 /\ InitSched!6 /\ InitSched!7 /\ InitSched!8
    /\ InitSched!9 /\ InitSched!10 /\ InitSched!11 /\ InitSched!12
    /\ InitSched!13
    /\ probe = {}

\* history: the task whose loop test has just found the flag false
SawStop(t) ==
    /\ probe' = IF running THEN probe ELSE probe \cup {t.tid}
    /\ UNCHANGED evlog

NextStop ==
    \/ StartNetwork /\ Aside
    \/ StopNetwork /\ Aside
    \/ (running => created.task + Cardinality(DOMAIN sensors) <= StopMaxTasks)
          /\ RunNetwork /\ Aside
    \/ Supervise /\ Aside
    \/ Reaped /\ Aside
    \/ \E t \in tasks : PollStart(t) /\ SawStop(t)
    \/ \E t \in tasks : PollWake(t) /\ SawStop(t)
    \/ \E t \in tasks :
          RoomInLog(t, StopMaxLog) /\ PollReading(t, 20) /\ Aside
    \/ \E t \in tasks : PollNothing(t, "None") /\ Aside
    \/ \E t \in tasks : PollCancelled(t) /\ Aside

SpecStop == InitStop /\ [][NextStop]_vars

\* a step of the polling task tid: its loop test, the end of its read (a
\* reading or None), or the delivery of its cancellation
StopTaskStep(tid) ==
    \E t \in tasks :
        /\ t.tid = tid
        /\ \/ PollStart(t) /\ SawStop(t)
           \/ PollWake(t) /\ SawStop(t)
           \/ RoomInLog(t, StopMaxLog) /\ PollReading(t, 20) /\ Aside
           \/ PollNothing(t, "None") /\ Aside
           \/ PollCancelled(t) /\ Aside

\* SpecStop under the scheduling of the event loop: every sleep ends, every
\* read returns, every cancellation is delivered, and the supervising loop
\* of _run_network gets its turns
SpecHalt ==
    /\ InitStop
    /\ [][NextStop]_vars
    /\ \A tid \in 1..StopMaxTasks : WF_vars(StopTaskStep(tid))
    /\ WF_vars(Supervise /\ Aside)
    /\ WF_vars(Reaped /\ Aside)

----------------------------------------------------------------------------
(* SpecLive: SpecSched under the scheduling of the event loop: a polling    *)
(* task that can take a step takes one (a sleep ends, a read returns or     *)
(* raises, a cancellation is delivered), and so does the supervising loop   *)
(* of _run_network.  The calls of callers are under no such obligation.     *)

\* a step of the polling task tid
TaskStep(tid) ==
    \E t \in tasks :
        /\ t.tid = tid
        /\ \/ PollStart(t)
           \/ PollWake(t)
           \/ RoomInLog(t, SchedMaxLog) /\ PollReading(t, 20)
           \/ PollNothing(t, "error")
           \/ PollCancelled(t)
        /\ Aside

SpecLive ==
    /\ InitSched
    /\ [][NextSched]_vars
    /\ \A tid \in 1..SchedMaxTasks : WF_vars(TaskStep(tid))
    /\ WF_vars(Supervise /\ Aside)
    /\ WF_vars(Reaped /\ Aside)

----------------------------------------------------------------------------
(* SpecDevice: the polling tasks of two Sensor objects whose own state is   *)
(* kept in probe: s1 is a VirtualSensor (initialize sets _initialized and   *)
(* returns True; read initializes the sensor first when it is not), s2 is   *)
(* the BrokenSensor of the tests (initialize raises, read raises).  It      *)
(* starts where _run_network has created both tasks.                        *)

\* Sensor.__init__: self._initialized = False; read_called is history
NewDevice(kind) ==
    [kind |-> kind, initialized |-> FALSE, read_called |-> FALSE]

InitDevice ==
    /\ sensors = [sid \in SchedIds |-> IF sid = "s1" THEN 1 ELSE 2]
    /\ readings = [sid \in SchedIds |-> <<>>]
    /\ alerts = <<>>
    /\ running = TRUE
    /\ tasks = {NewTask(1, "s1", 1), NewTask(2, "s2", 2)}
    /\ runner = "loop"
    /\ now = 0
    /\ created = [alert |-> 0, sensor |-> 2, task |-> 2]
    /\ trace = <<>>
    /\ invoked = <<>>
    /\ seen = {}
    /\ lastOp = Step
    /\ evlog = <<>>
    /\ probe = [obj \in {1, 2} |->
                   NewDevice(IF obj = 1 THEN "virtual" ELSE "broken")]

\* reading = await sensor.read(), by the class of the sensor
DeviceRead(t, v) ==
    IF probe[t.sobj].kind = "virtual"
    THEN /\ PollReading(t, v)
         /\ probe' = [probe EXCEPT ![t.sobj].initialized = TRUE,
                                   ![t.sobj].read_called = TRUE]
    ELSE /\ PollNothing(t, "error")
         /\ probe' = [probe EXCEPT ![t.sobj].read_called = TRUE]

NextDevice ==
    \/ \E t \in tasks : PollStart(t) /\ Aside
    \/ \E t \in tasks : PollWake(t) /\ Aside
    \/ \E t \in tasks, v \in Values :
          RoomInLog(t, DevMaxLog) /\ DeviceRead(t, v) /\ UNCHANGED evlog
    \/ StartNetwork /\ Aside
    \/ StopNetwork /\ Aside

SpecDevice == InitDevice /\ [][NextDevice]_vars

----------------------------------------------------------------------------
(* SpecVirtual: one VirtualSensor on its own.  Init draws min_value,        *)
(* max_value and noise_level; a read draws the noise and the drift.  A unit *)
(* of the model is one tenth; the bounds are even, so that their midpoint   *)
(* is a whole number of units.                                              *)

Drift == 1             \* drift = random.uniform(-0.1, 0.1)

Min2(a, b) == IF b < a THEN b ELSE a
Max2(a, b) == IF b > a THEN b ELSE a

\* the new value taken as it is
ClampNone(x, lo, hi) == x

\* max(self.min_value, min(self._current_value, self.max_value))
Clamp(x, lo, hi) == Max2(lo, Min2(x, hi))

\* VirtualSensor.__init__; unclamped is history
NewVirtual(lo, hi, noise) ==
    [min_value |-> lo, max_value |-> hi, noise_level |-> noise,
     current_value |-> (lo + hi) \div 2, initialized |-> FALSE,
     last_reading |-> <<>>, unclamped |-> (lo + hi) \div 2]

InitVirtual ==
    /\ Init!1 /\ Init!2 /\ Init!3 /\ Init!4 /\ Init!5 /\ Init!6 /\ Init!7
    /\ Init!8 /\ Init!9 /\ Init!10 /\ Init!11 /\ Init!12 /\ Init!13
    /\ \E lo, hi \in {2 * k : k \in 0..VirtMaxValue}, noise \in 0..VirtMaxNoise :
          probe = NewVirtual(lo, hi, noise)

Untouched ==
    UNCHANGED <<sensors, readings, alerts, running, tasks, runner, now,
                created, trace, invoked, seen, lastOp, evlog>>

VirtualInitialize ==
    /\ probe' = [probe EXCEPT !.initialized = TRUE]
    /\ Untouched

\* VirtualSensor.read with the noise and the drift it drew
VirtualRead(noise, drift) ==
    /\ LET raw == probe.current_value + noise + drift
           value == Clamp(raw, probe.min_value, probe.max_value)
       IN probe' = [probe EXCEPT !.initialized = TRUE,
                                 !.current_value = value,
                                 !.last_reading = <<value>>,
                                 !.unclamped = raw]
    /\ Untouched

NextVirtual ==
    \/ VirtualInitialize
    \/ \E noise \in (-probe.noise_level)..probe.noise_level,
          drift \in (-Drift)..Drift : VirtualRead(noise, drift)

SpecVirtual == InitVirtual /\ [][NextVirtual]_vars

----------------------------------------------------------------------------
(* SpecFrame: two sensors, the task of "s1" polling, and alerts on either   *)
(* sensor, on a field the readings of "s1" carry or lack, well-formed or    *)
(* not, registered in any order                                             *)

DampAlert == Request("s1", "humidity", "gt", Num(25), <<Ok("c")>>, 0)
WetAlert == Request("s2", "humidity", "lt", Num(25), <<Ok("c")>>, 0)
ListAlert == Request("s1", "temperature", "gt", Lst(<<25>>), <<Ok("c")>>, 0)

FrameRequests == {HotAlert, DampAlert, WetAlert, ListAlert}

InitFrame ==
    /\ sensors = [sid \in SchedIds |-> IF sid = "s1" THEN 1 ELSE 2]
    /\ readings = [sid \in SchedIds |-> <<>>]
    /\ alerts = <<>>
    /\ running = TRUE
    /\ tasks = {[NewTask(1, "s1", 1) EXCEPT !.pc = "read"]}
    /\ runner = "loop"
    /\ now = 0
    /\ created = [alert |-> 0, sensor |-> 2, task |-> 1]
    /\ trace = <<>>
    /\ invoked = <<>>
    /\ seen = {}
    /\ lastOp = Step
    /\ evlog = <<>>
    /\ probe = <<>>

NextFrame ==
    \/ \E req \in FrameRequests :
          RoomForAlert(req, FrameMaxAlertObjs) /\ AddAlert(req) /\ Aside
    \/ \E t \in tasks : PollWake(t) /\ Aside
    \/ \E t \in tasks, v \in Values :
          RoomInLog(t, FrameMaxLog) /\ PollReading(t, v) /\ Aside

SpecFrame == InitFrame /\ [][NextFrame]_vars

----------------------------------------------------------------------------
(* SpecPair: the polling tasks of two sensors interleaved, two alerts on    *)
(* "s1" and one on "s2", registered before polling starts                   *)

InitPair ==
    /\ sensors = [sid \in SchedIds |-> IF sid = "s1" THEN 1 ELSE 2]
    /\ readings = [sid \in SchedIds |-> <<>>]
    /\ alerts = <<NewAlert(1, HotAlert, 1), NewAlert(2, WetAlert, 2),
                  NewAlert(3, ColdAlert, 3)>>
    /\ running = TRUE
    /\ tasks = {[NewTask(1, "s1", 1) EXCEPT !.pc = "read"],
                [NewTask(2, "s2", 2) EXCEPT !.pc = "read"]}
    /\ runner = "loop"
    /\ now = 0
    /\ created = [alert |-> 3, sensor |-> 2, task |-> 2]
    /\ trace = [obj \in {1, 2, 3} |-> NewTrace]
    /\ invoked = <<>>
    /\ seen = {}
    /\ lastOp = Step
    /\ evlog = <<>>
    /\ probe = <<>>

NextPair ==
    \/ \E t \in tasks : PollWake(t) /\ Aside
    \/ \E t \in tasks, v \in Values :
          RoomInLog(t, PairMaxLog) /\ PollReading(t, v) /\ Aside
    \/ now < PairMaxTime /\ Tick /\ Aside

SpecPair == InitPair /\ [][NextPair]_vars

----------------------------------------------------------------------------
(* SpecLatest: the polling tasks of two VirtualSensor objects and           *)
(* add_sensor, with the _last_reading of every Sensor object in probe       *)
(* (<<>> for None).  It starts where _run_network has created both tasks.   *)

InitLatest ==
    /\ InitDevice!1 /\ InitDevice!2 /\ InitDevice!3 /\ InitDevice!4
    /\ InitDevice!5 /\ InitDevice!6 /\ InitDevice!7 /\ InitDevice!8
    /\ InitDevice!9 /\ InitDevice!10 /\ InitDevice!11 /\ InitDevice!12
    /\ InitDevice!13
    /\ probe = [obj \in {1, 2} |-> <<>>]

\* VirtualSensor.read: self._last_reading = reading; return reading
LatestRead(t, v) ==
    /\ PollReading(t, v)
    /\ probe' = [probe EXCEPT ![t.sobj] = <<Reading(t.sid, v, now)>>]
    /\ UNCHANGED evlog

\* add_sensor(Sensor(...)): the object is new, its _last_reading None
LatestAdd(sid) ==
    /\ AddSensor(sid)
    /\ probe' = Extend(probe, created.sensor + 1, <<>>)
    /\ UNCHANGED evlog

\* get_current_reading: sensor.get_last_reading() of the registered sensor
CurrentReading(sid) == probe[sensors[sid]]

NextLatest ==
    \/ \E sid \in SchedIds :
          created.sensor < LatestMaxSensorObjs /\ LatestAdd(sid)
    \/ \E t \in tasks : PollStart(t) /\ Aside
    \/ \E t \in tasks : PollWake(t) /\ Aside
    \/ \E t \in tasks, v \in Values :
          RoomInLog(t, LatestMaxLog) /\ LatestRead(t, v)

SpecLatest == InitLatest /\ [][NextLatest]_vars

----------------------------------------------------------------------------
(* SpecHumidity: the construction of one HumidityReading.  Init draws the   *)
(* humidity passed to the constructor; Construct runs the validator.        *)

HumidityLow == 0       \* if not 0 <= v <= 100
HumidityHigh == 100

\* the validator with both bounds excluded
ValidHumidityStrict(v) == HumidityLow < v /\ v < HumidityHigh

\* validate_humidity: 0 <= v <= 100
ValidHumidity(v) == HumidityLow <= v /\ v <= HumidityHigh

InitHumidity ==
    /\ Init!1 /\ Init!2 /\ Init!3 /\ Init!4 /\ Init!5 /\ Init!6 /\ Init!7
    /\ Init!8 /\ Init!9 /\ Init!10 /\ Init!11 /\ Init!12 /\ Init!13
    /\ \E h \in (HumidityLow - HumMargin)..(HumidityHigh + HumMargin) :
          probe = [humidity |-> h, outcome |-> "unset", reading |-> <<>>]

\* HumidityReading(sensor_id=..., humidity=h)
Construct ==
    /\ probe.outcome = "unset"
    /\ probe' = IF ValidHumidity(probe.humidity)
                THEN [probe EXCEPT !.outcome = "reading",
                                   !.reading = <<probe.humidity>>]
                ELSE [probe EXCEPT !.outcome = "ValueError"]
    /\ Untouched

NextHumidity == Construct

SpecHumidity == InitHumidity /\ [][NextHumidity]_vars

----------------------------------------------------------------------------
(* Properties *)

AlertOf(as, obj) == as[CHOOSE i \in DOMAIN as : as[i].obj = obj]

\* the alert objects a step keeps
Kept == Objs(alerts) \cap Objs(alerts')

\* the step invoked an action of the alert
FiredIn(obj) == \E k \in DOMAIN invoked' : invoked'[k].obj = obj

\* the step evaluated the alert against the reading it appended
EvaluatedIn(obj) == obj \in seen'

\* that reading meets the alert's condition
MetIn(obj) ==
    LET a == AlertOf(alerts, obj)
        log == readings'[a.sensor_id]
    IN ConditionMet(a.operator, log[Len(log)].value, a.value,
                    a.comparison_buffer)

\* C1: add_alert called with a sensor id that is not registered fails with
\* a validation error (ValueError) and leaves the sensors, the reading logs
\* and the alert list as they were.
C1_AddAlertUnknownSensor ==
    [][(lastOp'.op = "add_alert" /\ lastOp'.sensor_id \notin DOMAIN sensors)
          => /\ lastOp'.result = "ValueError"
             /\ sensors' = sensors
             /\ readings' = readings
             /\ alerts' = alerts]_vars

C1_Witness ==
    /\ lastOp.op = "add_alert" /\ lastOp.result = "ValueError"
    /\ lastOp.sensor_id \notin DOMAIN sensors
    /\ \E i \in DOMAIN alerts : alerts[i].triggered
    /\ \E sid \in DOMAIN readings : readings[sid] # <<>>

\* C2: alert ids are unique: no two alerts of the alert list share an id,
\* after any sequence of add_alert and alert removals.
C2_AlertIdsUnique ==
    \A i, j \in DOMAIN alerts : i # j => alerts[i].id # alerts[j].id

\* C3: a triggered alert does not invoke its actions on a reading that still
\* meets the condition, and between two firings of one alert an evaluated
\* reading did not meet the condition and cleared it.
C3_NoRefireWhileTriggered ==
    [][\A obj \in Kept :
          /\ (EvaluatedIn(obj) /\ AlertOf(alerts, obj).triggered /\ MetIn(obj))
                => /\ ~FiredIn(obj)
                   /\ AlertOf(alerts', obj).triggered
          /\ (FiredIn(obj) /\ trace[obj].lastFire # NoneTime)
                => trace[obj].cleared]_vars

C3_Witness ==
    \E obj \in DOMAIN trace :
        /\ obj \in seen
        /\ trace[obj].last = "held"
        /\ AlertOf(alerts, obj).triggered
        /\ invoked = <<>>

\* C4 as stated: whenever the actions of an alert are invoked, the previous
\* reading evaluated for it did not meet the condition (or there was none).
C4_EdgeOnly ==
    \A k \in DOMAIN invoked :
        trace[invoked[k].obj].prev \in {"none", "cleared", "idle"}

\* C4 amended: whenever the actions of an alert are invoked, the previous
\* reading evaluated for it did not meet the condition, or met it while the
\* alert was not triggered and the cooldown suppressed the trigger (or
\* there was none).
C4_FiresOnlyUntriggered ==
    \A k \in DOMAIN invoked :
        trace[invoked[k].obj].prev \in {"none", "cleared", "idle", "suppressed"}

C4_Witness ==
    \E k \in DOMAIN invoked :
        /\ trace[invoked[k].obj].last = "fired"
        /\ trace[invoked[k].obj].prev = "suppressed"

\* C5: two successive firings of an alert are separated by more than its
\* cooldown; a met reading of an untriggered alert evaluated with
\* elapsed <= cooldown invokes no action; with last_triggered unset the
\* cooldown suppresses nothing.
C5_CooldownGates ==
    [][\A obj \in Kept :
          LET a == AlertOf(alerts, obj) IN
          /\ (FiredIn(obj) /\ trace[obj].lastFire # NoneTime)
                => now' - trace[obj].lastFire > a.cooldown
          /\ (EvaluatedIn(obj) /\ MetIn(obj) /\ ~a.triggered
                 /\ a.last_triggered # NoneTime
                 /\ now' - a.last_triggered <= a.cooldown)
                => ~FiredIn(obj)
          /\ (EvaluatedIn(obj) /\ MetIn(obj) /\ ~a.triggered
                 /\ a.last_triggered = NoneTime)
                => /\ AlertOf(alerts', obj).triggered
                   /\ a.actions # <<>> => FiredIn(obj)]_vars

C5_Witness ==
    \E obj \in DOMAIN trace :
        /\ obj \in seen
        /\ trace[obj].last = "suppressed"
        /\ now - AlertOf(alerts, obj).last_triggered
              = AlertOf(alerts, obj).cooldown
        /\ invoked = <<>>

\* C6: a triggered alert evaluated against a reading that does not meet the
\* condition is cleared by that evaluation whatever the elapsed time, with
\* no action invoked and last_triggered unchanged.
C6_ClearImmediate ==
    [][\A obj \in Kept :
          (EvaluatedIn(obj) /\ AlertOf(alerts, obj).triggered /\ ~MetIn(obj))
             => /\ ~AlertOf(alerts', obj).triggered
                /\ ~FiredIn(obj)
                /\ AlertOf(alerts', obj).last_triggered
                      = AlertOf(alerts, obj).last_triggered]_vars

C6_Witness ==
    \E obj \in DOMAIN trace :
        /\ obj \in seen
        /\ trace[obj].last = "cleared"
        /\ ~AlertOf(alerts, obj).triggered
        /\ now - AlertOf(alerts, obj).last_triggered
              <= AlertOf(alerts, obj).cooldown

\* C7: when an action of a triggering alert raises, every later action of
\* the alert is still invoked, the alert is left triggered with
\* last_triggered = now, and the polling task stays alive, asleep until its
\* next read: a sleeping task that is not cancelled, while the network
\* runs, only moves on to its next read.
C7_ActionFailureIsolated ==
    /\ [](\A k \in DOMAIN invoked :
             invoked[k].raised =>
                LET a == AlertOf(alerts, invoked[k].obj) IN
                /\ \A j \in (invoked[k].idx + 1)..Len(a.actions) :
                      \E m \in DOMAIN invoked :
                          /\ m > k
                          /\ invoked[m].obj = a.obj
                          /\ invoked[m].idx = j
                          /\ invoked[m].name = a.actions[j].name
                /\ a.triggered
                /\ a.last_triggered = now
                /\ \E t \in tasks : /\ t.tid = lastOp.ret
                                    /\ t.sid = a.sensor_id
                                    /\ t.pc = "sleep"
                                    /\ ~t.cancel)
    /\ [][\A t \in tasks :
             (t.pc = "sleep" /\ ~t.cancel /\ running /\ t \notin tasks')
                => [t EXCEPT !.pc = "read"] \in tasks']_vars

C7_Witness ==
    \E k, m \in DOMAIN invoked :
        /\ invoked[k].raised
        /\ m > k
        /\ ~invoked[m].raised
        /\ invoked[m].obj = invoked[k].obj
        /\ \E t \in tasks : t.tid = lastOp.ret /\ t.pc = "sleep"

\* the readings of the scenario, evaluated at t = 0, 1, 2, 3
ScenReadings == <<26, 26, 20, 26>>

Matches(k) ==
    /\ Len(evlog) >= k
    /\ \A i \in 1..k : evlog[i].value = ScenReadings[i] /\ evlog[i].at = i - 1

\* C8: operator gt, threshold 25, cooldown 10: readings 26, 26, 20, 26
\* evaluated at t = 0, 1, 2, 3 invoke the actions once, at t = 0; triggered
\* is true after t = 0 and t = 1, false after t = 2; nothing is invoked at
\* t = 3.
C8_TriggerClearRetrigger ==
    alerts[1].cooldown = 10 =>
        /\ Matches(1) => evlog[1].calls = <<"a", "b">> /\ evlog[1].triggered
        /\ Matches(2) => evlog[2].calls = <<>> /\ evlog[2].triggered
        /\ Matches(3) => evlog[3].calls = <<>> /\ ~evlog[3].triggered
        /\ Matches(4) => evlog[4].calls = <<>>

C8_Witness == alerts[1].cooldown = 10 /\ Matches(4)

\* C9: the condition per operator: gt is value > threshold, lt is
\* value < threshold, eq is |value - threshold| <= buffer, neq is
\* |value - threshold| > buffer, between (low, high) is
\* low <= value <= high, both bounds included; eq and neq are opposite.
C9_ConditionPerOperator ==
    probe.met # "unset" =>
        LET op == probe.operator
            v == probe.value
            th == probe.threshold
            b == probe.buffer
            met == probe.met = "met"
        IN /\ probe.met \in {"met", "not met", "TypeError"}
           /\ ~th.isList =>
                 /\ probe.met # "TypeError"
                 /\ op = "gt" => (met <=> v > th.xs[1])
                 /\ op = "lt" => (met <=> v < th.xs[1])
                 /\ op = "eq" => (met <=> Abs(v - th.xs[1]) <= b)
                 /\ op = "neq" => (met <=> Abs(v - th.xs[1]) > b)
                 /\ op = "eq" => (met <=> ~ConditionMet("neq", v, th, b))
                 /\ op = "neq" => (met <=> ~ConditionMet("eq", v, th, b))
           /\ (op = "between" /\ th.isList /\ Len(th.xs) = 2) =>
                 (met <=> (th.xs[1] <= v /\ v <= th.xs[2]))
           /\ (op = "between" /\ th = Lst(<<18, 26>>)) =>
                 /\ v = 20 => met
                 /\ v = 26 => met
                 /\ v > 26 => ~met

C9_Witness ==
    /\ probe # <<>>
    /\ probe.operator = "between"
    /\ probe.threshold = Lst(<<18, 26>>)
    /\ probe.value = 26
    /\ probe.met = "met"

\* C10: every alert of the alert list has an operator among gt, lt, eq,
\* neq, between: a registration with another operator adds no alert.
C10_OperatorsValid ==
    \A i \in DOMAIN alerts : alerts[i].operator \in ValidOperators

\* C11: every between alert of the alert list has a threshold that is a
\* pair (low, high) with low <= high: a registration with operator between
\* and a malformed threshold adds no alert.
C11_BetweenWellFormed ==
    \A i \in DOMAIN alerts :
        alerts[i].operator = "between" =>
            /\ alerts[i].value.isList
            /\ Len(alerts[i].value.xs) = 2
            /\ alerts[i].value.xs[1] <= alerts[i].value.xs[2]

\* the indices of a log whose timestamp lies within the bounds given
InRange(log, start, end) ==
    {i \in DOMAIN log : /\ start # NoneTime => log[i].timestamp >= start
                        /\ end # NoneTime => log[i].timestamp <= end}

\* the k greatest of a set of indices (all of them when it has fewer)
Latest(M, k) == {i \in M : Cardinality({j \in M : j > i}) < k}

\* the readings of a log at the indices of M, in the order of the log
Pick(log, M) ==
    [n \in 1..Cardinality(M) |->
        log[CHOOSE i \in M : Cardinality({j \in M : j < i}) = n - 1]]

\* the step is a query that answered with readings
Queried == lastOp'.op = "get_sensor_readings" /\ probe'.status = "200"

\* C12: a query of a registered sensor with limit k and optional time
\* bounds returns, in the order of the log, exactly the last k readings of
\* the log whose timestamp lies within the bounds (all of them when fewer
\* than k do), and leaves the log as it was.
C12_QueryLastK ==
    [][(Queried /\ probe'.limit # NoLimit) =>
          /\ probe'.sensor_id \in DOMAIN sensors
          /\ readings' = readings
          /\ LET log == readings[probe'.sensor_id]
                 M == InRange(log, probe'.start_time, probe'.end_time)
             IN probe'.rows = Pick(log, Latest(M, probe'.limit))]_vars

C12_Witness ==
    /\ lastOp.op = "get_sensor_readings"
    /\ probe.status = "200"
    /\ probe.limit = 1
    /\ probe.end_time = 0
    /\ Len(readings[probe.sensor_id]) = 3
    /\ Cardinality(InRange(readings[probe.sensor_id], probe.start_time,
                           probe.end_time)) = 2
    /\ probe.rows = <<readings[probe.sensor_id][2]>>
    /\ readings[probe.sensor_id][3].timestamp = 1

\* C13: a query without a limit returns every reading of the log that lies
\* within the time bounds asked for, however many readings the log holds.
C13_NoLimitReturnsAll ==
    (lastOp.op = "get_sensor_readings" /\ probe.status = "200"
        /\ probe.limit = NoLimit) =>
        LET log == readings[probe.sensor_id] IN
        probe.rows = Pick(log, InRange(log, probe.start_time, probe.end_time))

\* C14: once remove_sensor has removed a sensor, the sensor has no reading
\* log, and a query for it (with an acceptable limit) answers with an empty
\* sequence of readings, not with an error.
C14_QueryAfterRemove ==
    \A sid \in SensorIds \ DOMAIN sensors :
        /\ sid \notin DOMAIN readings
        /\ (lastOp.op = "get_sensor_readings" /\ lastOp.sensor_id = sid
               /\ probe.status # "422")
              => probe.status = "200" /\ probe.rows = <<>>

\* C15: remove_sensor never raises: it returns True exactly when the id was
\* registered, and then removes that sensor and its log and nothing else of
\* the sensors and logs; it returns False when the id is unknown, and then
\* the sensors, the reading logs and the alert list are unchanged.
C15_RemoveSensorReports ==
    [][lastOp'.op = "remove_sensor" =>
          LET sid == lastOp'.sensor_id IN
          /\ lastOp'.result \in {"True", "False"}
          /\ lastOp'.result = "True" <=> sid \in DOMAIN sensors
          /\ sid \in DOMAIN sensors =>
                /\ sensors' = Restrict(sensors, DOMAIN sensors \ {sid})
                /\ readings' = Restrict(readings, DOMAIN readings \ {sid})
          /\ sid \notin DOMAIN sensors =>
                /\ sensors' = sensors
                /\ readings' = readings
                /\ alerts' = alerts]_vars

C15_Witness ==
    /\ lastOp.op = "remove_sensor"
    /\ lastOp.result = "True"
    /\ lastOp.sensor_id \notin DOMAIN sensors
    /\ \E sid \in DOMAIN sensors : readings[sid] # <<>>

\* C16: in every reachable state the sensor ids that have a reading log are
\* the registered sensor ids.
C16_NoOrphanedReadings == DOMAIN readings = DOMAIN sensors

C16_Witness ==
    /\ lastOp.op = "poll"
    /\ lastOp.result = "KeyError"
    /\ lastOp.sensor_id \notin DOMAIN sensors
    /\ \E sid \in DOMAIN sensors : readings[sid] # <<>>

\* C17: when the stop operation has completed, no polling task is left:
\* every task has been cancelled and awaited and the task registry is
\* empty.
C17_StopLeavesNoTask == lastOp.op = "stop" => tasks = {}

\* C18: a stop issued while the network is already stopped changes
\* nothing: running stays false, and the sensors, the reading logs, the
\* alerts and the task registry are unchanged.
C18_StopIdempotent ==
    [][(lastOp'.op = "stop" /\ ~running) =>
          /\ ~running'
          /\ sensors' = sensors
          /\ readings' = readings
          /\ alerts' = alerts
          /\ tasks' = tasks
          /\ runner' = runner]_vars

C18_Witness ==
    /\ lastOp.op = "stop"
    /\ evlog = <<[op |-> "stop", running |-> FALSE]>>
    /\ ~running
    /\ tasks # {}
    /\ \E sid \in DOMAIN readings : readings[sid] # <<>>

\* the step is a cycle of task t in which the read or the handling of the
\* reading raised
FailedIn(t) ==
    /\ lastOp'.op = "poll"
    /\ lastOp'.ret = t.tid
    /\ lastOp'.result \in {"error", "KeyError", "TypeError"}

\* C19: when a sensor's read raises, no reading is appended and no alert
\* is evaluated in that cycle, and the task stays alive, asleep; a sleeping
\* task that is not cancelled, while the network runs, next reads again.
C19_ReadFailureRecovered ==
    [][\A t \in tasks :
          /\ (FailedIn(t) /\ lastOp'.result = "error") =>
                /\ readings' = readings
                /\ alerts' = alerts
                /\ seen' = {}
                /\ invoked' = <<>>
                /\ tasks' = (tasks \ {t}) \cup {[t EXCEPT !.pc = "sleep"]}
          /\ (t.pc = "sleep" /\ ~t.cancel /\ running /\ tasks' # tasks) =>
                \/ tasks' = (tasks \ {t}) \cup {[t EXCEPT !.pc = "read"]}
                \/ t \in tasks']_vars

C19_Witness ==
    /\ lastOp.op = "poll"
    /\ lastOp.result = "error"
    /\ running
    /\ \E t \in tasks : /\ t.tid = lastOp.ret
                        /\ t.pc = "sleep"
                        /\ ~t.cancel
                        /\ t.sid \in DOMAIN readings
                        /\ readings[t.sid] = <<>>
                        /\ \E i \in DOMAIN alerts : alerts[i].sensor_id = t.sid

\* C20: a cycle of one sensor's task that fails leaves the running flag,
\* every other polling task and every other sensor's reading log as they
\* were, so that the other tasks go on polling.
C20_FailureIsolated ==
    [][\A t \in tasks :
          FailedIn(t) =>
             /\ running' = running
             /\ tasks' \ {[t EXCEPT !.pc = "sleep"]} = tasks \ {t}
             /\ DOMAIN readings' = DOMAIN readings
             /\ \A sid \in DOMAIN readings \ {t.sid} :
                    readings'[sid] = readings[sid]]_vars

C20_Witness ==
    /\ lastOp.op = "poll"
    /\ lastOp.result \in {"error", "KeyError"}
    /\ running
    /\ \E t, u \in tasks : /\ t.tid = lastOp.ret
                           /\ u.sid # t.sid
                           /\ u.pc = "read"
                           /\ ~u.cancel
                           /\ u.sid \in DOMAIN readings
                           /\ readings[u.sid] # <<>>

\* C21: a polling task initializes its sensor before it polls it: a sensor
\* is read by its task only after its initialize call has succeeded, and a
\* sensor whose initialize fails is never read.
C21_InitializedBeforeRead ==
    \A obj \in DOMAIN probe :
        probe[obj].read_called => probe[obj].initialized

\* the sensor registered under sid is being read by a polling task of its own
Polled(sid) ==
    \E t \in tasks : t.sid = sid /\ t.sobj = sensors[sid] /\ t.pc = "read"

\* C22: a sensor registered with add_sensor while _run_network is in its
\* loop, the network is running and another sensor is being polled
\* eventually is read by a polling task of its own (unless the network is
\* stopped or the sensor removed first).
C22_AddedSensorGetsTask ==
    \A sid \in SchedIds :
        (lastOp.op = "add_sensor" /\ lastOp.sensor_id = sid
            /\ running /\ runner = "loop"
            /\ \E t \in tasks : t.sid # sid /\ ~t.cancel)
        ~> (~running \/ runner # "loop" \/ sid \notin DOMAIN sensors
               \/ Polled(sid))

\* C23: once remove_sensor has removed a sensor, the polling task of that
\* sensor issues no further read: a task enters sensor.read() only for a
\* sensor id that is registered.
C23_RemovedSensorNotRead ==
    [][\A t \in tasks :
          (t.pc # "read" /\ [t EXCEPT !.pc = "read"] \in tasks')
             => t.sid \in DOMAIN sensors]_vars

IsPrefix(s, r) == Len(s) <= Len(r) /\ SubSeq(r, 1, Len(s)) = s

\* C24: the reading log of a sensor is append-only and ordered by
\* production: the log holds exactly the readings the sensor's reads
\* returned, in the order they returned them, each once, and every step
\* leaves the old log a prefix of the new one, longer by the reading
\* returned in that step or not at all.
C24_LogAppendOnly ==
    /\ [](/\ Len(readings["s1"]) = Len(evlog)
          /\ \A i \in DOMAIN evlog :
                /\ readings["s1"][i].value = evlog[i].value
                /\ readings["s1"][i].timestamp = evlog[i].at
                /\ readings["s1"][i].sensor_id = "s1")
    /\ [][/\ IsPrefix(readings["s1"], readings'["s1"])
          /\ Len(readings'["s1"]) =
                Len(readings["s1"])
                   + (IF lastOp'.op = "poll"
                         /\ lastOp'.result \in {"reading", "TypeError"}
                      THEN 1 ELSE 0)]_vars

C24_Witness ==
    /\ Len(readings["s1"]) = 3
    /\ readings["s1"][1].value = 26
    /\ readings["s1"][2].value = 20
    /\ readings["s1"][3].value = 26
    /\ readings["s1"][2].timestamp = readings["s1"][3].timestamp
    /\ lastOp.op = "poll"

\* C25: a virtual sensor constructed with min_value <= max_value produces
\* only readings whose value lies in [min_value, max_value], whatever
\* noise and drift its reads drew.
C25_VirtualInRange ==
    probe.min_value <= probe.max_value =>
        \A i \in DOMAIN probe.last_reading :
            /\ probe.min_value <= probe.last_reading[i]
            /\ probe.last_reading[i] <= probe.max_value

C25_Witness ==
    /\ probe # <<>>
    /\ probe.min_value < probe.max_value
    /\ probe.unclamped > probe.max_value
    /\ probe.last_reading = <<probe.max_value>>

\* C26: the construction of a humidity reading with a humidity below 0 or
\* above 100 fails with a validation error and yields no reading; with a
\* humidity from 0 to 100, both included, it succeeds and the reading
\* keeps the humidity.
C26_HumidityValidated ==
    probe.outcome # "unset" =>
        /\ (probe.humidity < 0 \/ probe.humidity > 100) =>
              probe.outcome = "ValueError" /\ probe.reading = <<>>
        /\ (0 <= probe.humidity /\ probe.humidity <= 100) =>
              probe.outcome = "reading" /\ probe.reading = <<probe.humidity>>

C26_Witness ==
    /\ probe # <<>>
    /\ probe.humidity = 100
    /\ probe.outcome = "reading"
    /\ probe.reading = <<100>>

\* the comparison of alert i raises when a reading of sensor sid reaches it
Raiser(i, sid) ==
    /\ alerts[i].sensor_id = sid
    /\ alerts[i].field = FieldOf(sid)
    /\ CondRaises(alerts[i].operator, alerts[i].value)

\* C27: when a reading of sensor S is evaluated, an alert on another sensor
\* and an alert on S whose field the reading lacks are left as they were
\* (triggered and last_triggered unchanged), are not evaluated and have no
\* action invoked; skipping raises no error (an error in the evaluation
\* comes from the comparison of an alert on S whose field is present); and
\* skipping does not end the evaluation: every alert on S whose field is
\* present, up to the first whose comparison raises, is evaluated.
C27_EvaluationFrame ==
    [][(lastOp'.op = "poll" /\ lastOp'.result \in {"reading", "TypeError"}) =>
          LET sid == lastOp'.sensor_id IN
          /\ \A i \in DOMAIN alerts :
                (alerts[i].sensor_id # sid \/ alerts[i].field # FieldOf(sid)) =>
                    /\ alerts'[i] = alerts[i]
                    /\ alerts[i].obj \notin seen'
                    /\ \A k \in DOMAIN invoked' :
                          invoked'[k].obj # alerts[i].obj
          /\ lastOp'.result = "TypeError" =>
                \E i \in DOMAIN alerts : Raiser(i, sid)
          /\ \A i \in DOMAIN alerts :
                ( /\ alerts[i].sensor_id = sid
                  /\ alerts[i].field = FieldOf(sid)
                  /\ \A j \in 1..i : ~Raiser(j, sid) ) =>
                    alerts[i].obj \in seen'
      ]_vars

\* a reading of 26 from "s1" passed the alert on the missing field and the
\* alert on "s2", and triggered the alert behind them
C27_Witness ==
    /\ lastOp.op = "poll" /\ lastOp.result = "reading"
    /\ Len(alerts) = 3
    /\ alerts[1].sensor_id = "s1" /\ alerts[1].field = "humidity"
    /\ alerts[2].sensor_id = "s2"
    /\ alerts[3].sensor_id = "s1" /\ alerts[3].field = "temperature"
    /\ seen = {alerts[3].obj}
    /\ alerts[3].triggered /\ ~alerts[1].triggered /\ ~alerts[2].triggered
    /\ Len(invoked) = 2

\* the reading an evaluation of the scenario has just taken
Taken == evlog'[Len(evlog')]

\* C28: an evaluation that finds the condition met, the alert not triggered
\* and the cooldown ok (last_triggered unset, or more than cooldown ago)
\* leaves the alert triggered with last_triggered = now and has invoked
\* every action of the alert exactly once, in the order of registration;
\* every other evaluation invokes no action.
C28_TriggerRunsActionsInOrder ==
    [][Len(evlog') = Len(evlog) + 1 =>
          LET a == alerts[1] IN
          IF /\ Taken.value > a.value.xs[1]
             /\ ~a.triggered
             /\ (a.last_triggered = NoneTime
                    \/ now - a.last_triggered > a.cooldown)
          THEN /\ alerts'[1].triggered
               /\ alerts'[1].last_triggered = now
               /\ Len(invoked') = Len(a.actions)
               /\ \A k \in DOMAIN invoked' :
                     /\ invoked'[k].obj = a.obj
                     /\ invoked'[k].idx = k
                     /\ invoked'[k].name = a.actions[k].name
          ELSE invoked' = <<>>
      ]_vars

\* the alert triggers again after its cooldown and both actions run, the
\* raising one first
C28_Witness ==
    /\ lastOp.op = "poll" /\ lastOp.result = "reading"
    /\ Len(evlog) >= 3
    /\ alerts[1].triggered
    /\ alerts[1].last_triggered = now
    /\ Len(invoked) = 2
    /\ invoked[1].name = "a" /\ invoked[1].raised
    /\ invoked[2].name = "b"

\* C29: an evaluation that finds the condition met, the alert not triggered
\* and last_triggered no more than cooldown ago leaves the alert as it was
\* (triggered false, last_triggered unchanged) and invokes no action.
C29_SuppressedEdgeChangesNothing ==
    [][Len(evlog') = Len(evlog) + 1 =>
          LET a == alerts[1] IN
          ( /\ Taken.value > a.value.xs[1]
            /\ ~a.triggered
            /\ a.last_triggered # NoneTime
            /\ now - a.last_triggered <= a.cooldown ) =>
              /\ ~alerts'[1].triggered
              /\ alerts'[1].last_triggered = a.last_triggered
              /\ alerts' = alerts
              /\ invoked' = <<>>
      ]_vars

\* a reading of 26 evaluated within the cooldown of a cleared alert
C29_Witness ==
    /\ lastOp.op = "poll" /\ lastOp.result = "reading"
    /\ evlog # <<>>
    /\ evlog[Len(evlog)].value = 26
    /\ evlog[Len(evlog)].calls = <<>>
    /\ ~alerts[1].triggered
    /\ alerts[1].last_triggered # NoneTime
    /\ alerts[1].last_triggered < now
    /\ now - alerts[1].last_triggered <= alerts[1].cooldown

\* C30: remove_sensor leaves the alert list as it is, and while the sensor
\* id of an alert is not registered no step evaluates the alert, changes
\* it or invokes an action of it, whatever the polling task of the removed
\* sensor does.
C30_RemovedSensorAlertsQuiet ==
    [][/\ DOMAIN sensors' # DOMAIN sensors => alerts' = alerts
       /\ \A i \in DOMAIN alerts :
             alerts[i].sensor_id \notin DOMAIN sensors =>
                /\ i \in DOMAIN alerts'
                /\ alerts'[i] = alerts[i]
                /\ alerts[i].obj \notin seen'
                /\ \A k \in DOMAIN invoked' :
                      invoked'[k].obj # alerts[i].obj
      ]_vars

\* the task of the removed sensor has read 20, below the threshold of the
\* alert, and the alert is still untriggered
C30_Witness ==
    /\ lastOp.op = "poll" /\ lastOp.result = "KeyError"
    /\ lastOp.sensor_id = "s1"
    /\ "s1" \notin DOMAIN sensors
    /\ \E t \in tasks : t.sid = "s1" /\ t.tid = lastOp.ret /\ ~t.cancel
    /\ Len(alerts) = 1
    /\ alerts[1].sensor_id = "s1"
    /\ ~alerts[1].triggered
    /\ alerts[1].last_triggered = NoneTime

\* C31: when the read of a polling task returns a reading for a sensor id
\* that has no log, the append creates the log: afterwards the id has a
\* log holding exactly that reading.
C31_AppendCreatesLog ==
    [][\A t \in tasks :
          ( /\ t.pc = "read"
            /\ t.sid \notin DOMAIN readings
            /\ [t EXCEPT !.pc = "sleep"] \in tasks'
            /\ lastOp'.op = "poll" /\ lastOp'.ret = t.tid
            /\ lastOp'.result \notin {"None", "error"} ) =>
              /\ t.sid \in DOMAIN readings'
              /\ Len(readings'[t.sid]) = 1
              /\ readings'[t.sid][1].sensor_id = t.sid
      ]_vars

\* C32: a polling task whose loop test has found the running flag false is
\* no longer alive and takes no further step of the loop, whatever the flag
\* becomes later: it is in no state of a read, a sleep or a start, and no
\* read, append or alert evaluation is its.
C32_NoReentryAfterStop ==
    /\ [](\A t \in tasks : t.tid \notin probe)
    /\ [][(lastOp'.op = "poll" /\ tasks' # tasks) =>
             lastOp'.ret \notin probe]_vars

\* a task has left on the stop signal, the flag is true again and another
\* task, of a later run, polls the same sensor
C32_Witness ==
    /\ running /\ runner = "loop"
    /\ \E tid \in probe :
          \E u \in tasks : u.tid > tid /\ u.sid = "s1" /\ u.pc = "sleep"
    /\ lastOp.op = "poll" /\ lastOp.sensor_id = "s1"
    /\ lastOp.result = "reading"

\* C33: under the scheduling of the event loop, every read returning or
\* raising, if the running flag is false from some moment on, then from
\* some moment on no polling task is alive and no run of the scheduler is
\* in progress.
C33_StopEventuallyEffective ==
    <>[](~running) => <>[](tasks = {} /\ runner \notin {"loop", "closing"})

\* a run that created tasks has ended after the flag went false
C33_Witness ==
    /\ ~running
    /\ runner = "stopped"
    /\ tasks = {}
    /\ created.task > 0
    /\ lastOp = Step

\* C34: no two live polling tasks have the same sensor id, and while the
\* scheduler is running every live polling task is the task of a
\* registered sensor.
C34_OneTaskPerSensor ==
    /\ \A t, u \in tasks : t.sid = u.sid => t.tid = u.tid
    /\ (running /\ runner = "loop") =>
          \A t \in tasks : t.sid \in DOMAIN sensors

\* C35: in a polling task, an alert is evaluated only against a reading
\* that the same step has appended at the end of the log of the task's
\* sensor, and when the evaluation is over the task is in its sleep: it
\* starts a read only from its loop test, a step that evaluates nothing.
C35_CycleOrdered ==
    [][/\ (seen' # {} \/ invoked' # <<>>) =>
             /\ lastOp'.op = "poll"
             /\ LET sid == lastOp'.sensor_id
                    log == readings'[sid]
                IN /\ Len(log) = Len(readings[sid]) + 1
                   /\ SubSeq(log, 1, Len(log) - 1) = readings[sid]
                   /\ log[Len(log)].timestamp = now
                   /\ \A i \in DOMAIN alerts :
                         alerts[i].obj \in seen' =>
                            /\ alerts[i].sensor_id = sid
                            /\ (trace'[alerts[i].obj].last
                                    \in {"fired", "held", "suppressed"})
                                  <=> log[Len(log)].value > alerts[i].value.xs[1]
             /\ \E t \in tasks :
                   /\ t.tid = lastOp'.ret /\ t.pc = "read"
                   /\ tasks' = (tasks \ {t}) \cup {[t EXCEPT !.pc = "sleep"]}
       /\ \A t \in tasks' :
             (t.pc = "read" /\ t \notin tasks) =>
                /\ [t EXCEPT !.pc = "sleep"] \in tasks
                /\ seen' = {} /\ invoked' = <<>>
                /\ readings' = readings
      ]_vars

\* the second reading of the task, 26 after 20, has triggered an alert and
\* lies at the end of the log; the task sleeps
C35_Witness ==
    /\ lastOp.op = "poll" /\ lastOp.result = "reading"
    /\ Len(readings["s1"]) = 2
    /\ readings["s1"][1].value = 20
    /\ readings["s1"][2].value = 26
    /\ \E i \in DOMAIN alerts :
          alerts[i].obj \in seen /\ trace[alerts[i].obj].last = "fired"
    /\ \A t \in tasks : t.pc = "sleep"

\* the state an evaluation of alert a against value v at time t must leave
Decided(a, v, t) ==
    LET met == IF a.operator = "gt" THEN v > a.value.xs[1]
               ELSE v < a.value.xs[1]
        cool == a.last_triggered = NoneTime \/ t - a.last_triggered > a.cooldown
    IN IF met /\ ~a.triggered /\ cool
       THEN [a EXCEPT !.triggered = TRUE, !.last_triggered = t]
       ELSE IF ~met /\ a.triggered
       THEN [a EXCEPT !.triggered = FALSE]
       ELSE a

\* C36: in every interleaving of the polling tasks, the state of an alert
\* changes only in the step of the task of the alert's sensor that
\* evaluates it, and every evaluation leaves exactly the state decided from
\* the state the alert had when the step began and the reading of that
\* step: no evaluation works on a state another evaluation is changing,
\* and no update is lost.
C36_AlertStepAtomic ==
    [][\A i \in DOMAIN alerts :
          LET a == alerts[i] IN
          /\ alerts'[i] # a =>
                /\ lastOp'.op = "poll"
                /\ lastOp'.sensor_id = a.sensor_id
                /\ a.obj \in seen'
          /\ a.obj \in seen' =>
                LET log == readings'[a.sensor_id] IN
                /\ lastOp'.sensor_id = a.sensor_id
                /\ \E t \in tasks : t.tid = lastOp'.ret /\ t.sid = a.sensor_id
                /\ alerts'[i] = Decided(a, log[Len(log)].value, now)
      ]_vars

\* the task of "s2" has triggered its alert between two evaluations of the
\* alerts of "s1", which keep what the task of "s1" decided
C36_Witness ==
    /\ lastOp.op = "poll" /\ lastOp.sensor_id = "s2"
    /\ Len(alerts) = 3
    /\ seen = {alerts[2].obj}
    /\ alerts[2].sensor_id = "s2" /\ alerts[2].triggered
    /\ alerts[1].sensor_id = "s1" /\ ~alerts[1].triggered
    /\ 1 \in DOMAIN trace /\ trace[1].last = "cleared"
    /\ alerts[3].triggered
    /\ \E t \in tasks : t.sid = "s1" /\ t.pc = "read"

\* C37: add_sensor with an id that is registered puts the new sensor object
\* under the id and leaves the id's log empty; the sensors and logs of the
\* other ids and the alert list, alerts on the replaced id included, are
\* as before.
C37_ReplaceResetsLog ==
    [][\A sid \in DOMAIN sensors :
          ( /\ created'.sensor # created.sensor
            /\ lastOp'.op = "add_sensor" /\ lastOp'.sensor_id = sid ) =>
              /\ DOMAIN sensors' = DOMAIN sensors
              /\ DOMAIN readings' = DOMAIN sensors'
              /\ sensors'[sid] # sensors[sid]
              /\ sensors'[sid] = created'.sensor
              /\ readings'[sid] = <<>>
              /\ \A o \in DOMAIN sensors \ {sid} :
                    sensors'[o] = sensors[o] /\ readings'[o] = readings[o]
              /\ alerts' = alerts
      ]_vars

\* "s1" has been replaced after its reading had triggered the alert: its
\* log is empty, the log of "s2" holds its reading, the alert is triggered
C37_Witness ==
    /\ lastOp.op = "add_sensor" /\ lastOp.sensor_id = "s1"
    /\ SchedIds \subseteq DOMAIN sensors
    /\ sensors["s1"] = 3
    /\ readings["s1"] = <<>>
    /\ Len(readings["s2"]) = 1
    /\ Len(alerts) = 1
    /\ alerts[1].sensor_id = "s1" /\ alerts[1].triggered

\* C38: for every registered sensor the current reading is the last
\* element of the sensor's log, and there is none exactly when the log is
\* empty.
C38_LatestIsLastOfLog ==
    \A sid \in DOMAIN sensors :
        IF readings[sid] = <<>>
        THEN CurrentReading(sid) = <<>>
        ELSE CurrentReading(sid) = <<readings[sid][Len(readings[sid])]>>

\* C39: for every reading appended for sensor S, every alert on S whose
\* field the reading carries and whose own comparison does not raise is
\* evaluated against it, whatever the other alerts on S are, the alerts
\* in front of it whose comparison raises included.
C39_AlertsIndependent ==
    [][(lastOp'.op = "poll" /\ lastOp'.result \in {"reading", "TypeError"}) =>
          \A i \in DOMAIN alerts :
              ( /\ alerts[i].sensor_id = lastOp'.sensor_id
                /\ alerts[i].field = FieldOf(lastOp'.sensor_id)
                /\ ~CondRaises(alerts[i].operator, alerts[i].value) ) =>
                  alerts[i].obj \in seen'
      ]_vars

\* C40: a reading is appended to the log of sensor id S only by the task
\* that polls the sensor object registered under S at that moment: no
\* reading of a replaced sensor object enters the new log of S.
C40_ReadingsFromRegisteredObject ==
    [][\A t \in tasks :
          ( /\ t.pc = "read"
            /\ lastOp'.op = "poll" /\ lastOp'.ret = t.tid
            /\ t.sid \in DOMAIN readings
            /\ Len(readings'[t.sid]) = Len(readings[t.sid]) + 1 ) =>
              sensors[t.sid] = t.sobj
      ]_vars

====
